---- MODULE Spec2Model ----
(***************************************************************************)
(* Model of homeassistant/helpers/selector.py: the selector registry, the  *)
(* factory functions selector() and validate_selector(), the per-kind      *)
(* CONFIG_SCHEMA declarations, Selector.serialize() and the per-kind       *)
(* __call__ value validators.                                              *)
(*                                                                         *)
(* Python values are tagged records:                                       *)
(*   None  [k |-> "none"]            bool  [k |-> "bool", b |-> TRUE]      *)
(*   int   [k |-> "int", n |-> 5]    float [k |-> "float", f |-> 50000]    *)
(*   str   [k |-> "str", s |-> <<"a","b">>]   (a sequence of characters)   *)
(*   list  [k |-> "list", l |-> <<v1, v2>>]                                *)
(*   dict  [k |-> "dict", d |-> [key |-> value]]  (keys are option names)  *)
(* A float is counted in ten-thousandths, so 1e-3 is 10 and 1.0 is 10000.  *)
(***************************************************************************)
EXTENDS Integers, Sequences, FiniteSets, TLC

\* ------------------------------------------------------------------------
\* Bounds of the model
\* ------------------------------------------------------------------------
\* Number of concurrent callers sharing the instance.
NumCallers == 2

\* Raw numbers submitted to a number selector range over -1 .. MaxNumber.
MaxNumber == 11

\* ------------------------------------------------------------------------
\* Python values
\* ------------------------------------------------------------------------
PyNone == [k |-> "none"]

PyBool(b) == [k |-> "bool", b |-> b]

PyInt(n) == [k |-> "int", n |-> n]

PyFloat(f) == [k |-> "float", f |-> f]

PyStr(s) == [k |-> "str", s |-> s]

PyList(l) == [k |-> "list", l |-> l]

PyDict(d) == [k |-> "dict", d |-> d]

EmptyDict == PyDict(<<>>)

IsStr(v) == v.k = "str"

IsDict(v) == v.k = "dict"

IsList(v) == v.k = "list"

\* Outcome of a call: a returned value, or a raised exception.  "site" names
\* the check that raised.
Ok(v) == [ok |-> TRUE, v |-> v]

Raise(exc, site) == [ok |-> FALSE, exc |-> exc, site |-> site]

Invalid(site) == Raise("vol.Invalid", site)

\* ------------------------------------------------------------------------
\* Character helpers
\* ------------------------------------------------------------------------
UpperChars == <<"A","B","C","D","E","F","G","H","I","J","K","L","M",
                "N","O","P","Q","R","S","T","U","V","W","X","Y","Z">>

LowerChars == <<"a","b","c","d","e","f","g","h","i","j","k","l","m",
                "n","o","p","q","r","s","t","u","v","w","x","y","z">>

DigitChars == <<"0","1","2","3","4","5","6","7","8","9">>

HexChars == {"0","1","2","3","4","5","6","7","8","9","a","b","c","d","e","f"}

Range(seq) == {seq[i] : i \in DOMAIN seq}

IndexOf(seq, c) == CHOOSE i \in DOMAIN seq : seq[i] = c

LowerChar(c) == IF c \in Range(UpperChars) THEN LowerChars[IndexOf(UpperChars, c)] ELSE c

\* str.lower()
Lower(s) == [i \in DOMAIN s |-> LowerChar(s[i])]

DigitVal(c) == IndexOf(DigitChars, c) - 1

RECURSIVE DigitsToNat(_)
DigitsToNat(s) == IF s = <<>> THEN 0
                  ELSE 10 * DigitsToNat(SubSeq(s, 1, Len(s) - 1)) + DigitVal(s[Len(s)])

RECURSIVE NatToDigits(_)
NatToDigits(n) == IF n < 10 THEN <<DigitChars[n + 1]>>
                  ELSE NatToDigits(n \div 10) \o <<DigitChars[(n % 10) + 1]>>

\* str(int)
IntToStr(n) == IF n < 0 THEN <<"-">> \o NatToDigits(0 - n) ELSE NatToDigits(n)

AllDigits(s) == s # <<>> /\ \A i \in DOMAIN s : s[i] \in Range(DigitChars)

\* ------------------------------------------------------------------------
\* External primitives (homeassistant.core, config_validation)
\* ------------------------------------------------------------------------
\* Length of a registry id in hex.
UuidLen == 32

IdChars == Range(LowerChars) \cup Range(DigitChars) \cup {"_"}

ValidIdPart(p) ==
    /\ p # <<>>
    /\ \A i \in DOMAIN p : p[i] \in IdChars
    /\ p[1] # "_"
    /\ p[Len(p)] # "_"
    /\ \A i \in 1..(Len(p) - 1) : ~(p[i] = "_" /\ p[i + 1] = "_")

Dots(s) == {i \in DOMAIN s : s[i] = "."}

FirstDot(s) == CHOOSE i \in Dots(s) : \A j \in Dots(s) : i <= j

\* core.split_entity_id: partition at the first "."
split_entity_id(s) == <<SubSeq(s, 1, FirstDot(s) - 1), SubSeq(s, FirstDot(s) + 1, Len(s))>>

\* core.valid_entity_id: <domain>.<object_id>, both lower-case slugs
valid_entity_id(s) ==
    /\ Cardinality(Dots(s)) = 1
    /\ ValidIdPart(split_entity_id(s)[1])
    /\ ValidIdPart(split_entity_id(s)[2])

\* cv.string: None, lists and dicts are refused, anything else is str(value)
cv_string(v) ==
    CASE v.k = "none" -> Invalid("cv.string")
      [] v.k \in {"list", "dict"} -> Invalid("cv.string")
      [] v.k = "str" -> Ok(v)
      [] v.k = "int" -> Ok(PyStr(IntToStr(v.n)))
      [] v.k = "bool" -> Ok(PyStr(IF v.b THEN <<"T","r","u","e">> ELSE <<"F","a","l","s","e">>))
      [] v.k = "float" -> IF v.f % 10000 = 0
                            THEN Ok(PyStr(IntToStr(v.f \div 10000) \o <<".","0">>))
                            ELSE Invalid("cv.string")
      [] OTHER -> Invalid("cv.string")

TrueWords == {<<"1">>, <<"t","r","u","e">>, <<"y","e","s">>, <<"o","n">>}

FalseWords == {<<"0">>, <<"f","a","l","s","e">>, <<"n","o">>, <<"o","f","f">>}

\* cv.boolean: bools as they are, the usual words, numbers by != 0
cv_boolean(v) ==
    CASE v.k = "bool" -> Ok(v)
      [] v.k = "str" -> IF Lower(v.s) \in TrueWords THEN Ok(PyBool(TRUE))
                        ELSE IF Lower(v.s) \in FalseWords THEN Ok(PyBool(FALSE))
                        ELSE Invalid("cv.boolean")
      [] v.k = "int" -> Ok(PyBool(v.n # 0))
      [] v.k = "float" -> Ok(PyBool(v.f # 0))
      [] OTHER -> Invalid("cv.boolean")

\* cv.entity_id: string(value).lower() must be a valid entity id
cv_entity_id(v) ==
    LET s == cv_string(v)
    IN IF ~s.ok THEN Invalid("cv.entity_id")
       ELSE IF valid_entity_id(Lower(s.v.s)) THEN Ok(PyStr(Lower(s.v.s)))
       ELSE Invalid("cv.entity_id")

\* cv.fake_uuid4_hex: 32 lower-case hex characters
fake_uuid4_hex(v) ==
    IF IsStr(v) /\ Len(v.s) = UuidLen /\ \A i \in DOMAIN v.s : v.s[i] \in HexChars
    THEN Ok(v) ELSE Invalid("cv.fake_uuid4_hex")

\* cv.entity_id_or_uuid: an entity id, else a registry id, else Invalid
cv_entity_id_or_uuid(v) ==
    IF cv_entity_id(v).ok THEN cv_entity_id(v)
    ELSE IF fake_uuid4_hex(v).ok THEN fake_uuid4_hex(v)
    ELSE Invalid("cv.entity_id_or_uuid")

\* float(value) as vol.Coerce(float) calls it
CoerceFloat(v) ==
    CASE v.k = "float" -> Ok(v)
      [] v.k = "int" -> Ok(PyFloat(v.n * 10000))
      [] v.k = "bool" -> Ok(PyFloat(IF v.b THEN 10000 ELSE 0))
      [] v.k = "str" ->
            IF AllDigits(v.s) THEN Ok(PyFloat(DigitsToNat(v.s) * 10000))
            ELSE IF Len(v.s) > 1 /\ v.s[1] = "-" /\ AllDigits(Tail(v.s))
                 THEN Ok(PyFloat(0 - DigitsToNat(Tail(v.s)) * 10000))
            ELSE Invalid("Coerce(float)")
      [] OTHER -> Invalid("Coerce(float)")

\* bool(value) as vol.Coerce(bool) calls it: Python truthiness
CoerceBool(v) ==
    CASE v.k = "none" -> Ok(PyBool(FALSE))
      [] v.k = "bool" -> Ok(v)
      [] v.k = "int" -> Ok(PyBool(v.n # 0))
      [] v.k = "float" -> Ok(PyBool(v.f # 0))
      [] v.k = "str" -> Ok(PyBool(v.s # <<>>))
      [] v.k = "list" -> Ok(PyBool(v.l # <<>>))
      [] v.k = "dict" -> Ok(PyBool(DOMAIN v.d # {}))
      [] OTHER -> Invalid("Coerce(bool)")

\* ------------------------------------------------------------------------
\* voluptuous
\* ------------------------------------------------------------------------
\* Schema nodes
VType(ty) == [t |-> "type", ty |-> ty]

VLiteral(v) == [t |-> "literal", lit |-> v]

VCoerce(ty) == [t |-> "Coerce", ty |-> ty]

VRange(min) == [t |-> "Range", min |-> min]

VLength(min) == [t |-> "Length", min |-> min]

VIn(container) == [t |-> "In", container |-> container]

VAll(vs) == [t |-> "All", vs |-> vs]

VAny(vs) == [t |-> "Any", vs |-> vs]

VList(vs) == [t |-> "list", vs |-> vs]

VDict(keys) == [t |-> "dict", keys |-> keys]

VCv(f) == [t |-> "cv", f |-> f]

\* Key markers
Optional(v) == [req |-> FALSE, hasdef |-> FALSE, def |-> PyNone, v |-> v]

OptionalDefault(def, v) == [req |-> FALSE, hasdef |-> TRUE, def |-> def, v |-> v]

Required(v) == [req |-> TRUE, hasdef |-> FALSE, def |-> PyNone, v |-> v]

\* Schema.extend
Extend(schema, keys) == VDict(keys @@ schema.keys)

TypeIs(ty, v) ==
    CASE ty = "str" -> v.k = "str"
      [] ty = "bool" -> v.k = "bool"
      [] ty = "float" -> v.k = "float"
      [] ty = "dict" -> v.k = "dict"
      [] OTHER -> FALSE

CvCall(f, v) ==
    CASE f = "string" -> cv_string(v)
      [] f = "boolean" -> cv_boolean(v)
      [] f = "entity_id" -> cv_entity_id(v)
      [] f = "entity_id_or_uuid" -> cv_entity_id_or_uuid(v)

CoerceCall(ty, v) == IF ty = "float" THEN CoerceFloat(v) ELSE CoerceBool(v)

\* len(v) of a sized value
PyLen(v) ==
    CASE v.k = "list" -> Len(v.l)
      [] v.k = "str" -> Len(v.s)
      [] v.k = "dict" -> Cardinality(DOMAIN v.d)

RECURSIVE Validate(_, _), ValidateAll(_, _, _), ValidateAny(_, _, _)

\* vol.All: each validator is fed the output of the one before
ValidateAll(vs, i, v) ==
    IF i > Len(vs) THEN Ok(v)
    ELSE LET r == Validate(vs[i], v)
         IN IF r.ok THEN ValidateAll(vs, i + 1, r.v) ELSE r

\* vol.Any: the first validator that accepts decides
ValidateAny(vs, i, v) ==
    IF i > Len(vs) THEN Invalid("Any")
    ELSE LET r == Validate(vs[i], v)
         IN IF r.ok THEN r ELSE ValidateAny(vs, i + 1, v)

\* A compiled mapping schema: defaults are filled in before validation, an
\* undeclared key and a missing required key are refused (PREVENT_EXTRA)
ValidateDict(keys, data) ==
    IF ~IsDict(data) THEN Invalid("expected a dictionary")
    ELSE LET given == DOMAIN data.d
             filled == given \cup {key \in DOMAIN keys : keys[key].hasdef}
             value(key) == IF key \in given THEN data.d[key] ELSE keys[key].def
             extra == given \ DOMAIN keys
             missing == {key \in DOMAIN keys : keys[key].req /\ key \notin filled}
             sub == [key \in filled \ extra |-> Validate(keys[key].v, value(key))]
         IN IF extra # {} THEN Invalid("extra keys not allowed")
            ELSE IF \E key \in DOMAIN sub : ~sub[key].ok THEN Invalid("option value")
            ELSE IF missing # {} THEN Invalid("required key not provided")
            ELSE Ok(PyDict([key \in DOMAIN sub |-> sub[key].v]))

\* A compiled sequence schema: every element must pass one of the validators
ValidateList(vs, data) ==
    IF ~IsList(data) THEN Invalid("expected a list")
    ELSE LET sub == [i \in DOMAIN data.l |-> ValidateAny(vs, 1, data.l[i])]
         IN IF \E i \in DOMAIN sub : ~sub[i].ok THEN Invalid("list element")
            ELSE Ok(PyList([i \in DOMAIN sub |-> sub[i].v]))

\* Schema.__call__
Validate(schema, v) ==
    CASE schema.t = "type" -> IF TypeIs(schema.ty, v) THEN Ok(v) ELSE Invalid("type")
      [] schema.t = "literal" -> IF v = schema.lit THEN Ok(v) ELSE Invalid("literal")
      [] schema.t = "Coerce" -> CoerceCall(schema.ty, v)
      [] schema.t = "Range" -> IF v.f < schema.min THEN Invalid("Range") ELSE Ok(v)
      [] schema.t = "Length" -> IF PyLen(v) < schema.min THEN Invalid("Length") ELSE Ok(v)
      [] schema.t = "In" -> IF v \in schema.container THEN Ok(v) ELSE Invalid("In")
      [] schema.t = "All" -> ValidateAll(schema.vs, 1, v)
      [] schema.t = "Any" -> ValidateAny(schema.vs, 1, v)
      [] schema.t = "list" -> ValidateList(schema.vs, v)
      [] schema.t = "dict" -> ValidateDict(schema.keys, v)
      [] schema.t = "cv" -> CvCall(schema.f, v)

\* ------------------------------------------------------------------------
\* Declaration schemas of the selector kinds
\* ------------------------------------------------------------------------
SINGLE_ENTITY_SELECTOR_CONFIG_SCHEMA ==
    VDict([integration |-> Optional(VType("str")),
           domain |-> Optional(VType("str")),
           device_class |-> Optional(VType("str"))])

EntitySelector_CONFIG_SCHEMA ==
    Extend(SINGLE_ENTITY_SELECTOR_CONFIG_SCHEMA,
           [multiple |-> OptionalDefault(PyBool(FALSE), VCv("boolean"))])

\* Mutant of DeviceSelector_CONFIG_SCHEMA: the entity option takes the whole
\* schema of the entity kind
DeviceSelector_CONFIG_SCHEMA_WholeEntity ==
    VDict([integration |-> Optional(VType("str")),
           manufacturer |-> Optional(VType("str")),
           model |-> Optional(VType("str")),
           entity |-> Optional(EntitySelector_CONFIG_SCHEMA),
           multiple |-> OptionalDefault(PyBool(FALSE), VCv("boolean"))])

DeviceSelector_CONFIG_SCHEMA ==
    VDict([integration |-> Optional(VType("str")),
           manufacturer |-> Optional(VType("str")),
           model |-> Optional(VType("str")),
           entity |-> Optional(SINGLE_ENTITY_SELECTOR_CONFIG_SCHEMA),
           multiple |-> OptionalDefault(PyBool(FALSE), VCv("boolean"))])

AreaSelector_CONFIG_SCHEMA ==
    VDict([entity |-> Optional(SINGLE_ENTITY_SELECTOR_CONFIG_SCHEMA),
           device |-> Optional(DeviceSelector_CONFIG_SCHEMA),
           multiple |-> OptionalDefault(PyBool(FALSE), VCv("boolean"))])

\* vol.Range(min=1e-3), in ten-thousandths
MinStep == 10

BoxStr == <<"b","o","x">>

SliderStr == <<"s","l","i","d","e","r">>

NumberSelector_CONFIG_SCHEMA ==
    VDict([min |-> Optional(VCoerce("float")),
           max |-> Optional(VCoerce("float")),
           step |-> OptionalDefault(PyInt(1), VAll(<<VCoerce("float"), VRange(MinStep)>>)),
           unit_of_measurement |-> Optional(VType("str")),
           mode |-> OptionalDefault(PyStr(SliderStr), VIn({PyStr(BoxStr), PyStr(SliderStr)}))])

AddonSelector_CONFIG_SCHEMA ==
    VDict([name |-> Optional(VCv("string")), slug |-> Optional(VCv("string"))])

EmptySchema == VDict(<<>>)

TargetSelector_CONFIG_SCHEMA ==
    VDict([entity |-> Optional(SINGLE_ENTITY_SELECTOR_CONFIG_SCHEMA),
           device |-> Optional(DeviceSelector_CONFIG_SCHEMA)])

STRING_TYPES ==
    {PyStr(<<"n","u","m","b","e","r">>), PyStr(<<"t","e","x","t">>),
     PyStr(<<"s","e","a","r","c","h">>), PyStr(<<"t","e","l">>),
     PyStr(<<"u","r","l">>), PyStr(<<"e","m","a","i","l">>),
     PyStr(<<"p","a","s","s","w","o","r","d">>), PyStr(<<"d","a","t","e">>),
     PyStr(<<"m","o","n","t","h">>), PyStr(<<"w","e","e","k">>),
     PyStr(<<"t","i","m","e">>),
     PyStr(<<"d","a","t","e","t","i","m","e","-","l","o","c","a","l">>),
     PyStr(<<"c","o","l","o","r">>)}

StringSelector_CONFIG_SCHEMA ==
    VDict([multiline |-> OptionalDefault(PyBool(FALSE), VType("bool")),
           suffix |-> Optional(VType("str")),
           type |-> Optional(VIn(STRING_TYPES))])

select_option ==
    VAll(<<VType("dict"),
           VDict([value |-> Required(VType("str")), label |-> Required(VType("str"))])>>)

SelectSelector_CONFIG_SCHEMA ==
    VDict([options |-> Required(VAll(<<VAny(<<VList(<<VType("str")>>),
                                              VList(<<select_option>>)>>),
                                       VLength(1)>>))])

AttributeSelector_CONFIG_SCHEMA ==
    VDict([entity_id |-> Required(VCv("entity_id"))])

IconSelector_CONFIG_SCHEMA ==
    VDict([placeholder |-> Optional(VType("str")), fallbackPath |-> Optional(VType("str"))])

LocationSelector_CONFIG_SCHEMA ==
    VDict([radius |-> Optional(VType("bool")), icon |-> Optional(VType("str"))])

\* The registry: SELECTORS, filled by the @SELECTORS.register decorators
SELECTORS ==
    [entity |-> EntitySelector_CONFIG_SCHEMA,
     device |-> DeviceSelector_CONFIG_SCHEMA,
     area |-> AreaSelector_CONFIG_SCHEMA,
     number |-> NumberSelector_CONFIG_SCHEMA,
     addon |-> AddonSelector_CONFIG_SCHEMA,
     boolean |-> EmptySchema,
     time |-> EmptySchema,
     target |-> TargetSelector_CONFIG_SCHEMA,
     action |-> EmptySchema,
     object |-> EmptySchema,
     text |-> StringSelector_CONFIG_SCHEMA,
     select |-> SelectSelector_CONFIG_SCHEMA,
     attribute |-> AttributeSelector_CONFIG_SCHEMA,
     duration |-> EmptySchema,
     icon |-> IconSelector_CONFIG_SCHEMA,
     theme |-> EmptySchema,
     media |-> EmptySchema,
     location |-> LocationSelector_CONFIG_SCHEMA]

Tags == DOMAIN SELECTORS

\* ------------------------------------------------------------------------
\* The factory
\* ------------------------------------------------------------------------
\* list(config)[0] of a one-key mapping
FirstKey(config) == CHOOSE key \in DOMAIN config.d : TRUE

\* Mutant of get_selector_class: only the empty mapping is refused for its shape
get_selector_class_EmptyOnly(config) ==
    IF ~IsDict(config) THEN Invalid("Expected a dictionary")
    ELSE IF Cardinality(DOMAIN config.d) = 0 THEN Invalid("Only one type can be specified")
    ELSE IF FirstKey(config) \notin Tags THEN Invalid("Unknown selector type")
    ELSE Ok(FirstKey(config))

\* _get_selector_class: the kind's tag, or the Invalid it raises
get_selector_class(config) ==
    IF ~IsDict(config) THEN Invalid("Expected a dictionary")
    ELSE IF Cardinality(DOMAIN config.d) # 1 THEN Invalid("Only one type can be specified")
    ELSE IF FirstKey(config) \notin Tags THEN Invalid("Unknown selector type")
    ELSE Ok(FirstKey(config))

Instance(tag, config) == [k |-> "Selector", selector_type |-> tag, config |-> config]

\* Selector.__init__: self.config = self.CONFIG_SCHEMA(config[self.selector_type])
Selector_init(tag, config) ==
    LET r == Validate(SELECTORS[tag], config.d[tag])
    IN IF r.ok THEN Ok(Instance(tag, r.v)) ELSE r

\* Mutant of selector: a null value is handed to the schema as it is
selector_NullToSchema(config) ==
    LET cls == get_selector_class(config)
    IN IF ~cls.ok THEN cls ELSE Selector_init(cls.v, config)

\* selector(config)
selector(config) ==
    LET cls == get_selector_class(config)
    IN IF ~cls.ok THEN cls
       ELSE IF config.d[cls.v].k = "none" THEN Selector_init(cls.v, PyDict(cls.v :> EmptyDict))
       ELSE Selector_init(cls.v, config)

\* validate_selector(config)
validate_selector(config) ==
    LET cls == get_selector_class(config)
    IN IF ~cls.ok THEN cls
       ELSE IF config.d[cls.v].k = "none" THEN Ok(PyDict(cls.v :> EmptyDict))
       ELSE LET r == Validate(SELECTORS[cls.v], config.d[cls.v])
            IN IF r.ok THEN Ok(PyDict(cls.v :> r.v)) ELSE r

\* Mutant of serialize: the options without the tag
serialize_WithoutTag(self) == PyDict([selector |-> self.config])

\* Selector.serialize
serialize(self) == PyDict([selector |-> PyDict(self.selector_type :> self.config)])

\* ------------------------------------------------------------------------
\* Value validation: the kinds' __call__
\* ------------------------------------------------------------------------
Has(self, option) == option \in DOMAIN self.config.d

Opt(self, option) == self.config.d[option]

\* Outcomes of validating the elements of a list in order: the first refusal
\* is raised, else the list of the results is returned
Collect(outs) ==
    IF \E i \in DOMAIN outs : ~outs[i].ok
    THEN outs[CHOOSE i \in DOMAIN outs : ~outs[i].ok /\ \A j \in 1..(i - 1) : outs[j].ok]
    ELSE Ok(PyList([i \in DOMAIN outs |-> outs[i].v]))

\* Mutant of EntitySelector_validate: the declared domain is not compared
EntitySelector_validate_AnyDomain(self, e_or_u) == cv_entity_id_or_uuid(e_or_u)

\* EntitySelector.__call__.validate
EntitySelector_validate(self, e_or_u) ==
    LET r == cv_entity_id_or_uuid(e_or_u)
    IN IF ~r.ok THEN r
       ELSE IF ~valid_entity_id(r.v.s) THEN r
       ELSE IF Has(self, "domain") /\ Opt(self, "domain").s # <<>>
                 /\ split_entity_id(r.v.s)[1] # Opt(self, "domain").s
            THEN Invalid("Entity belongs to another domain")
       ELSE r

\* EntitySelector.__call__
EntitySelector_call(self, data) ==
    IF ~Opt(self, "multiple").b THEN EntitySelector_validate(self, data)
    ELSE IF ~IsList(data) THEN Invalid("Value should be a list")
    ELSE LET r == Collect([i \in DOMAIN data.l |-> EntitySelector_validate(self, data.l[i])])
         IN IF r.ok THEN r ELSE Invalid("list element")

\* DeviceSelector.__call__ and AreaSelector.__call__
StringOrList_call(self, data) ==
    IF ~Opt(self, "multiple").b THEN cv_string(data)
    ELSE IF ~IsList(data) THEN Invalid("Value should be a list")
    ELSE Collect([i \in DOMAIN data.l |-> cv_string(data.l[i])])

\* Mutant of NumberSelector_call: the bounds are excluded
NumberSelector_call_Exclusive(self, data) ==
    LET value == CoerceFloat(data)
    IN IF ~value.ok THEN value
       ELSE IF ~Has(self, "min") THEN Raise("KeyError", "min")
       ELSE IF ~(Opt(self, "min").f < value.v.f) THEN Invalid("Value is too small or too large")
       ELSE IF ~Has(self, "max") THEN Raise("KeyError", "max")
       ELSE IF ~(value.v.f < Opt(self, "max").f) THEN Invalid("Value is too small or too large")
       ELSE value

\* NumberSelector.__call__: the bounds are read by self.config["min"] and
\* self.config["max"], which raise KeyError for an option that was not declared;
\* the chained comparison reads max only when min <= value
NumberSelector_call(self, data) ==
    LET value == CoerceFloat(data)
    IN IF ~value.ok THEN value
       ELSE IF ~Has(self, "min") THEN Raise("KeyError", "min")
       ELSE IF ~(Opt(self, "min").f <= value.v.f) THEN Invalid("Value is too small or too large")
       ELSE IF ~Has(self, "max") THEN Raise("KeyError", "max")
       ELSE IF ~(value.v.f <= Opt(self, "max").f) THEN Invalid("Value is too small or too large")
       ELSE value

\* Mutant of SelectSelector_options: the labels of {value, label} entries
SelectSelector_options_Labels(self) ==
    LET options == Opt(self, "options").l
    IN IF IsStr(options[1]) THEN Range(options)
       ELSE {options[i].d["label"] : i \in DOMAIN options}

\* SelectSelector.__call__: the option set
SelectSelector_options(self) ==
    LET options == Opt(self, "options").l
    IN IF IsStr(options[1]) THEN Range(options)
       ELSE {options[i].d["value"] : i \in DOMAIN options}

\* SelectSelector.__call__
SelectSelector_call(self, data) ==
    LET text == cv_string(data)
    IN IF ~text.ok THEN text
       ELSE IF text.v \in SelectSelector_options(self) THEN text
       ELSE Invalid("In")

\* cv.time: "HH:MM" to a time of day
cv_time(v) ==
    IF /\ IsStr(v)
       /\ Len(v.s) = 5
       /\ v.s[3] = ":"
       /\ AllDigits(SubSeq(v.s, 1, 2))
       /\ AllDigits(SubSeq(v.s, 4, 5))
       /\ DigitsToNat(SubSeq(v.s, 1, 2)) < 24
       /\ DigitsToNat(SubSeq(v.s, 4, 5)) < 60
    THEN Ok([k |-> "time", h |-> DigitsToNat(SubSeq(v.s, 1, 2)),
             m |-> DigitsToNat(SubSeq(v.s, 4, 5))])
    ELSE Invalid("cv.time")

\* cv.time_period_dict: a mapping of units to numbers, at least one unit
cv_time_period_dict(v) ==
    LET r == Validate(VDict([hours |-> Optional(VCoerce("float")),
                             minutes |-> Optional(VCoerce("float")),
                             seconds |-> Optional(VCoerce("float"))]), v)
        unit(u, d) == IF u \in DOMAIN d THEN d[u].f ELSE 0
    IN IF ~r.ok THEN r
       ELSE IF DOMAIN r.v.d = {} THEN Invalid("must contain at least one unit")
       ELSE Ok([k |-> "timedelta",
                seconds |-> (3600 * unit("hours", r.v.d) + 60 * unit("minutes", r.v.d)
                             + unit("seconds", r.v.d)) \div 10000])

\* cv.TARGET_SERVICE_FIELDS: target kind to list of identifiers
TARGET_SELECTION_SCHEMA ==
    VDict([entity_id |-> Optional(VList(<<VType("str")>>)),
           device_id |-> Optional(VList(<<VType("str")>>)),
           area_id |-> Optional(VList(<<VType("str")>>))])

MediaSelector_DATA_SCHEMA ==
    VDict([entity_id |-> Optional(VCv("entity_id_or_uuid")),
           media_content_id |-> Optional(VType("str")),
           media_content_type |-> Optional(VType("str")),
           metadata |-> Optional(VDict(
               [title |-> Optional(VType("str")),
                thumbnail |-> Optional(VAny(<<VType("str"), VLiteral(PyNone)>>)),
                media_class |-> Optional(VType("str")),
                children_media_class |-> Optional(VAny(<<VType("str"), VLiteral(PyNone)>>)),
                navigateIds |-> Optional(VList(<<VDict(
                    [media_content_type |-> Required(VType("str")),
                     media_content_id |-> Required(VType("str"))])>>))]))])

LocationSelector_DATA_SCHEMA ==
    VDict([latitude |-> Required(VType("float")),
           longitude |-> Required(VType("float")),
           radius |-> Optional(VType("float"))])

\* instance(data): dispatch on the instance's class
Selector_call(self, data) ==
    LET tag == self.selector_type
    IN CASE tag = "entity" -> EntitySelector_call(self, data)
         [] tag \in {"device", "area"} -> StringOrList_call(self, data)
         [] tag = "number" -> NumberSelector_call(self, data)
         [] tag \in {"addon", "text", "attribute", "icon", "theme"} -> cv_string(data)
         [] tag = "boolean" -> CoerceBool(data)
         [] tag = "time" -> cv_time(data)
         [] tag = "target" -> Validate(TARGET_SELECTION_SCHEMA, data)
         [] tag \in {"action", "object"} -> Ok(data)
         [] tag = "select" -> SelectSelector_call(self, data)
         [] tag = "duration" -> cv_time_period_dict(data)
         [] tag = "media" -> Validate(MediaSelector_DATA_SCHEMA, data)
         [] tag = "location" -> Validate(LocationSelector_DATA_SCHEMA, data)

\* Mutant of ConfigAfterCall: select rewrites its options to the list of values
ConfigAfterCall_InPlace(self, data) ==
    IF self.selector_type = "select"
    THEN PyDict([options |-> PyList([i \in DOMAIN Opt(self, "options").l |->
                     IF IsStr(Opt(self, "options").l[i]) THEN Opt(self, "options").l[i]
                     ELSE Opt(self, "options").l[i].d["value"]])])
    ELSE self.config

\* The instance's options once a call on it has returned or raised: no
\* __call__ assigns to self.config or changes the mapping it holds
ConfigAfterCall(self, data) == self.config

\* ------------------------------------------------------------------------
\* Inputs
\* ------------------------------------------------------------------------
\* Every mapping that takes some of the keys of choices, each to one of the
\* values choices offers for it
Mappings(choices) ==
    UNION {{PyDict(f) : f \in {g \in [S -> UNION {choices[key] : key \in DOMAIN choices}] :
                                 \A key \in S : g[key] \in choices[key]}} :
           S \in SUBSET DOMAIN choices}

sLt == PyStr(<<"l","t">>)

sLtK == PyStr(<<"l","t",".","k">>)

sLtKUpper == PyStr(<<"L","t",".","K">>)

sSwK == PyStr(<<"s","w",".","k">>)

sBad == PyStr(<<"b","a","d">>)

sEmpty == PyStr(<<>>)

sA == PyStr(<<"a">>)

sB == PyStr(<<"b">>)

sC == PyStr(<<"c">>)

sOn == PyStr(<<"o","n">>)

sFive == PyStr(<<"5">>)

sUuid == PyStr([i \in 1..UuidLen |-> IF i % 2 = 0 THEN "a" ELSE "0"])

sNoon == PyStr(<<"1","2",":","0","0">>)

\* Options given as the `entity` option of device, area and target
EmbeddedEntityOptions ==
    Mappings([domain |-> {sLt, PyInt(5)}, multiple |-> {PyBool(TRUE)}])

EntityOptions ==
    EmbeddedEntityOptions \cup
    Mappings([domain |-> {sLt, sEmpty}, multiple |-> {PyBool(TRUE), sOn, sBad},
              integration |-> {sA}])

\* Options given as the `device` option of area and target
EmbeddedDeviceOptions ==
    Mappings([entity |-> {EmptyDict, PyDict([domain |-> sLt]), PyDict([multiple |-> PyBool(TRUE)])},
              multiple |-> {sOn, sBad},
              manufacturer |-> {sA, PyInt(5)}])

DeviceOptions ==
    EmbeddedDeviceOptions \cup {PyDict([entity |-> m]) : m \in EmbeddedEntityOptions}

AreaOptions ==
    {PyDict([entity |-> m]) : m \in EmbeddedEntityOptions}
    \cup {PyDict([device |-> m]) : m \in EmbeddedDeviceOptions}
    \cup {PyDict([multiple |-> PyBool(TRUE)]),
          PyDict([device |-> PyDict([entity |-> PyDict([domain |-> sLt])]),
                  entity |-> PyDict([domain |-> sLt]), multiple |-> sOn])}

TargetOptions ==
    {PyDict([entity |-> m]) : m \in EmbeddedEntityOptions}
    \cup {PyDict([device |-> m]) : m \in EmbeddedDeviceOptions}
    \cup {PyDict([multiple |-> PyBool(TRUE)])}

NumberOptions ==
    Mappings([min |-> {PyInt(0), PyStr(<<"2">>)},
              max |-> {PyInt(MaxNumber - 1), sBad},
              step |-> {PyInt(1), PyFloat(1)},
              mode |-> {PyStr(BoxStr), sBad}])

SelectOptions ==
    {PyDict([options |-> PyList(l)]) :
        l \in {<<sA, sB>>, <<sFive>>, <<>>, <<sA, PyInt(5)>>,
               <<PyDict([value |-> sA, label |-> sB])>>,
               <<PyDict([value |-> sA, label |-> sA]), PyDict([value |-> sFive, label |-> sB])>>,
               <<PyDict([value |-> sA])>>,
               <<sA, PyDict([value |-> sB, label |-> sB])>>}}
    \cup {PyDict([options |-> sA]), PyDict([options |-> PyList(<<sA>>), multiple |-> PyBool(TRUE)])}

AttributeOptions ==
    {PyDict([entity_id |-> e]) : e \in {sLtK, sLtKUpper, sBad, PyInt(5)}}

TextOptions ==
    Mappings([multiline |-> {PyBool(TRUE), sOn}, type |-> {PyStr(<<"u","r","l">>), sBad},
              suffix |-> {sA}])

AddonOptions == Mappings([name |-> {sA, PyInt(5), PyNone}, slug |-> {sB}])

IconOptions == Mappings([placeholder |-> {sA, PyInt(5)}, fallbackPath |-> {sB}])

LocationOptions == Mappings([radius |-> {PyBool(TRUE), sOn}, icon |-> {sA}])

KindOptions(tag) ==
    CASE tag = "entity" -> EntityOptions
      [] tag = "device" -> DeviceOptions
      [] tag = "area" -> AreaOptions
      [] tag = "target" -> TargetOptions
      [] tag = "number" -> NumberOptions
      [] tag = "select" -> SelectOptions
      [] tag = "attribute" -> AttributeOptions
      [] tag = "text" -> TextOptions
      [] tag = "addon" -> AddonOptions
      [] tag = "icon" -> IconOptions
      [] tag = "location" -> LocationOptions
      [] OTHER -> {}

\* What every kind is tried with: null, no options, an option it does not
\* declare, and options that are no mapping
CommonOptions == {PyNone, EmptyDict, PyDict([bogus |-> PyInt(1)]), PyInt(5)}

Declaration(tag, options) == PyDict(tag :> options)

MalformedDeclarations ==
    {PyNone, sA, PyList(<<>>), PyList(<<PyDict([boolean |-> EmptyDict])>>),
     EmptyDict,
     PyDict([a |-> EmptyDict, b |-> EmptyDict]),
     PyDict([entity |-> EmptyDict, number |-> EmptyDict]),
     PyDict([boolean |-> PyNone, theme |-> PyNone, bogus |-> PyNone])}

UnknownDeclarations ==
    {Declaration("bogus-tag", EmptyDict), Declaration("bogus-tag", PyNone),
     Declaration("selector", PyDict([boolean |-> EmptyDict])),
     Declaration("Entity", EmptyDict)}

Declarations ==
    MalformedDeclarations \cup UnknownDeclarations
    \cup UNION {{Declaration(tag, o) : o \in CommonOptions \cup KindOptions(tag)} : tag \in Tags}

NumberValues == {PyInt(n) : n \in -1..MaxNumber}

\* Raw values submitted to an instance
Values ==
    NumberValues
    \cup {PyNone, PyBool(TRUE), PyFloat(25000), PyFloat(1),
          sLtK, sLtKUpper, sSwK, sBad, sUuid, sA, sB, sC, sFive, sNoon,
          PyList(<<>>), PyList(<<sLtK>>), PyList(<<sLtK, sSwK>>), PyList(<<sUuid, sLtK>>),
          PyList(<<sA, PyInt(5)>>), PyList(<<sA, PyNone>>),
          EmptyDict,
          PyDict([entity_id |-> PyList(<<sLtK>>)]),
          PyDict([entity_id |-> sLtK]),
          PyDict([hours |-> PyInt(1), minutes |-> sFive]),
          PyDict([latitude |-> PyFloat(10000), longitude |-> PyFloat(20000)]),
          PyDict([longitude |-> PyFloat(20000)]),
          PyDict([entity_id |-> sLtK, metadata |-> PyDict([thumbnail |-> PyNone])])}

Callers == 1..NumCallers

\* ------------------------------------------------------------------------
\* The state machine
\* ------------------------------------------------------------------------
VARIABLES
    decl,   \* the declaration at hand
    inst,   \* the instance constructed from it, PyNone when there is none
    res     \* the last operation: what it was, who called, its input and outcome

vars == <<decl, inst, res>>

Operation(op, caller, arg, out) == [op |-> op, caller |-> caller, arg |-> arg, out |-> out]

HasInstance == inst.k = "Selector"

Init ==
    /\ decl \in Declarations
    /\ inst = PyNone
    /\ res = Operation("none", 0, PyNone, Ok(PyNone))

\* instance = selector(decl)
Construct ==
    /\ ~HasInstance
    /\ LET out == selector(decl)
       IN /\ inst' = IF out.ok THEN out.v ELSE PyNone
          /\ res' = Operation("selector", 0, decl, out)
    /\ UNCHANGED decl

\* validate_selector(decl)
ValidateSelector ==
    /\ res' = Operation("validate_selector", 0, decl, validate_selector(decl))
    /\ UNCHANGED <<decl, inst>>

\* instance.serialize()
Serialize ==
    /\ HasInstance
    /\ res' = Operation("serialize", 0, inst, Ok(serialize(inst)))
    /\ UNCHANGED <<decl, inst>>

\* selector(instance.serialize()): what serialize returned is given to selector
ConstructSerialized ==
    /\ res.op = "serialize"
    /\ res' = Operation("selector(serialized)", 0, res.out.v, selector(res.out.v))
    /\ UNCHANGED <<decl, inst>>

\* selector(instance.serialize()["selector"])
ConstructSerializedInner ==
    /\ res.op = "serialize"
    /\ res' = Operation("selector(serialized[selector])", 0, res.out.v.d["selector"],
                 selector(res.out.v.d["selector"]))
    /\ UNCHANGED <<decl, inst>>

\* instance(data), by one of the callers that share the instance
Call(caller, data) ==
    /\ HasInstance
    /\ res' = Operation("call", caller, data, Selector_call(inst, data))
    /\ inst' = [inst EXCEPT !.config = ConfigAfterCall(inst, data)]
    /\ UNCHANGED decl

Next ==
    \/ Construct
    \/ ValidateSelector
    \/ Serialize
    \/ ConstructSerialized
    \/ ConstructSerializedInner
    \/ \E caller \in Callers, data \in Values : Call(caller, data)

Spec == Init /\ [][Next]_vars

\* ------------------------------------------------------------------------
\* The failures the specification names.  The code raises vol.Invalid for all
\* four; they differ in the check that raises.
\* ------------------------------------------------------------------------
IsInvalidDeclarationShape(out) ==
    /\ ~out.ok
    /\ out.exc = "vol.Invalid"
    /\ out.site \in {"Expected a dictionary", "Only one type can be specified"}

IsUnknownSelectorType(out) ==
    ~out.ok /\ out.exc = "vol.Invalid" /\ out.site = "Unknown selector type"

\* raised by the kind's CONFIG_SCHEMA
IsSchemaValidationError(out) ==
    /\ ~out.ok
    /\ out.exc = "vol.Invalid"
    /\ ~IsInvalidDeclarationShape(out)
    /\ ~IsUnknownSelectorType(out)

\* raised by the kind's __call__
IsValueValidationError(out) == ~out.ok /\ out.exc = "vol.Invalid"

\* ------------------------------------------------------------------------
\* Vocabulary of the properties
\* ------------------------------------------------------------------------
IsMapping(d) == d.k = "dict"

KeyCount(d) == Cardinality(DOMAIN d.d)

SingleKey(d) == IsMapping(d) /\ KeyCount(d) = 1

Registered(d) == SingleKey(d) /\ FirstKey(d) \in Tags

TagOf(d) == FirstKey(d)

OptionsOf(d) == d.d[FirstKey(d)]

Constructed == res.op = "selector"

Called == res.op = "call"

CalledOn(tag) == Called /\ inst.selector_type = tag

\* ------------------------------------------------------------------------
\* C1
\* ------------------------------------------------------------------------
\* C1: selector(d) produces an instance only when d is a mapping with exactly
\* one key whose tag is registered.  A non-mapping, a mapping with no key and
\* a mapping with two or more keys fail with InvalidDeclarationShape, whatever
\* the keys are (the shape is checked before the tag is looked up); a
\* single-key mapping with an unregistered tag fails with UnknownSelectorType;
\* none of them leaves an instance.
C1_ShapeThenTag ==
    Constructed =>
        /\ ~SingleKey(decl) => IsInvalidDeclarationShape(res.out) /\ ~HasInstance
        /\ (SingleKey(decl) /\ ~Registered(decl)) =>
               IsUnknownSelectorType(res.out) /\ ~HasInstance
        /\ res.out.ok => Registered(decl)
        /\ HasInstance => res.out.ok

\* A three-key mapping, one of the keys unregistered, was refused for its shape
C1_Witness ==
    /\ Constructed
    /\ IsMapping(decl)
    /\ KeyCount(decl) = 3
    /\ \E key \in DOMAIN decl.d : key \notin Tags
    /\ IsInvalidDeclarationShape(res.out)

\* ------------------------------------------------------------------------
\* C2
\* ------------------------------------------------------------------------
\* C2: validate_selector(d) succeeds if and only if selector(d) succeeds, also
\* for a declaration whose single value is null, and then returns
\* {tag: selector(d).config}, the normalized options with the defaults filled in.
C2_ValidateAgreesWithConstruct ==
    res.op = "validate_selector" =>
        LET built == selector(res.arg)
        IN /\ res.out.ok <=> built.ok
           /\ (res.out.ok /\ built.ok) =>
                  res.out.v = PyDict(TagOf(res.arg) :> built.v.config)

\* ------------------------------------------------------------------------
\* C3
\* ------------------------------------------------------------------------
NoRequiredOption(tag) ==
    \A key \in DOMAIN SELECTORS[tag].keys : ~SELECTORS[tag].keys[key].req

DefaultedOptions(tag) == {key \in DOMAIN SELECTORS[tag].keys : SELECTORS[tag].keys[key].hasdef}

IsEmptyDeclaration(d) == Registered(d) /\ OptionsOf(d) \in {PyNone, EmptyDict}

OtherEmptyForm(d) ==
    Declaration(TagOf(d), IF OptionsOf(d).k = "none" THEN EmptyDict ELSE PyNone)

\* C3: for every registered kind selector({tag: null}) and selector({tag: {}})
\* have the same outcome; they succeed exactly when the kind has no required
\* option, and then the options are exactly the kind's defaults; they fail with
\* SchemaValidationError exactly for select and attribute, 2 of the 18 kinds.
C3_EmptyDeclaration ==
    (Constructed /\ IsEmptyDeclaration(decl)) =>
        /\ res.out = selector(OtherEmptyForm(decl))
        /\ res.out.ok <=> NoRequiredOption(TagOf(decl))
        /\ res.out.ok => DOMAIN inst.config.d = DefaultedOptions(TagOf(decl))
        /\ ~res.out.ok => IsSchemaValidationError(res.out)
        /\ ~res.out.ok <=> TagOf(decl) \in {"select", "attribute"}
        /\ Cardinality({tag \in Tags : NoRequiredOption(tag)}) = 16

\* {"number": null} was constructed and holds the defaults of step and mode
C3_Witness ==
    /\ Constructed
    /\ decl = Declaration("number", PyNone)
    /\ HasInstance
    /\ DOMAIN inst.config.d = {"step", "mode"}
    /\ inst.config.d["step"] = PyFloat(10000)

\* ------------------------------------------------------------------------
\* C4
\* ------------------------------------------------------------------------
\* C4 as stated: serialize(selector(d)) is the declaration {tag: options}, and
\* selector(serialize(selector(d))) succeeds with the same tag and options.
C4_RoundTripAsStated ==
    /\ res.op = "serialize" => res.out.v = Declaration(inst.selector_type, inst.config)
    /\ res.op = "selector(serialized)" =>
           /\ res.out.ok
           /\ res.out.v.selector_type = inst.selector_type
           /\ res.out.v.config = inst.config

\* C4 amended: serialize(selector(d)) is {"selector": {tag: options}}, the
\* declaration wrapped under the key "selector"; selector() of the declaration
\* found under that key succeeds with the same tag and identical normalized
\* options, and selector() of the wrapped form fails with UnknownSelectorType.
C4_RoundTripUnwrapped ==
    /\ res.op = "serialize" =>
           /\ DOMAIN res.out.v.d = {"selector"}
           /\ res.out.v.d["selector"] = Declaration(inst.selector_type, inst.config)
    /\ res.op = "selector(serialized[selector])" =>
           /\ res.out.ok
           /\ res.out.v.selector_type = inst.selector_type
           /\ res.out.v.config = inst.config
           /\ res.arg = Declaration(inst.selector_type, inst.config)
    /\ res.op = "selector(serialized)" => IsUnknownSelectorType(res.out)

\* A number declared with string bounds came back with its float bounds and
\* defaults after the round trip
C4_Witness ==
    /\ res.op = "selector(serialized[selector])"
    /\ decl = Declaration("number", PyDict([min |-> PyStr(<<"2">>), max |-> PyInt(MaxNumber - 1)]))
    /\ res.out.ok
    /\ res.out.v.config.d["min"] = PyFloat(20000)
    /\ res.out.v.config.d["step"] = PyFloat(10000)

\* ------------------------------------------------------------------------
\* C5
\* ------------------------------------------------------------------------
WithinDeclaredBounds(self, f) ==
    /\ Has(self, "min") => Opt(self, "min").f <= f
    /\ Has(self, "max") => f <= Opt(self, "max").f

\* C5: a number selector declared without min and/or max checks the coerced
\* value against the declared bounds only: it accepts every value within them,
\* and whatever it refuses it refuses with ValueValidationError.
C5_UnsetBoundIsUnbounded ==
    (CalledOn("number") /\ (~Has(inst, "min") \/ ~Has(inst, "max"))) =>
        LET value == CoerceFloat(res.arg)
        IN /\ ~res.out.ok => IsValueValidationError(res.out)
           /\ (value.ok /\ WithinDeclaredBounds(inst, value.v.f)) => res.out = value

\* ------------------------------------------------------------------------
\* C6
\* ------------------------------------------------------------------------
\* The id's domain, derived by splitting it, is D
BelongsTo(v, D) == IsStr(v) /\ Dots(v.s) # {} /\ split_entity_id(v.s)[1] = D

\* A registry id: 32 hex characters, no entity id
IsRegistryId(v) == fake_uuid4_hex(v).ok /\ ~valid_entity_id(v.s)

\* An entity id, in any case, whose domain is not D
OfAnotherDomain(v, D) ==
    IsStr(v) /\ valid_entity_id(Lower(v.s)) /\ split_entity_id(Lower(v.s))[1] # D

\* Neither an entity id nor a registry id
NoId(v) == ~cv_entity_id_or_uuid(v).ok

Accepted(out) == IF IsList(out.v) THEN Range(out.v.l) ELSE {out.v}

DeclaredDomain == Opt(inst, "domain").s

Multiple == Opt(inst, "multiple").b

\* C6 as stated: with domain = D every accepted value, and every element of an
\* accepted list, belongs to domain D; a value of another domain is refused
\* with ValueValidationError; with multiple a non-list is refused and one bad
\* element refuses the whole list.
C6_DomainAsStated ==
    (CalledOn("entity") /\ Has(inst, "domain")) =>
        /\ res.out.ok => \A v \in Accepted(res.out) : BelongsTo(v, DeclaredDomain)
        /\ (~Multiple /\ OfAnotherDomain(res.arg, DeclaredDomain)) =>
               IsValueValidationError(res.out)
        /\ (Multiple /\ ~IsList(res.arg)) => IsValueValidationError(res.out)
        /\ (Multiple /\ IsList(res.arg)
              /\ \E i \in DOMAIN res.arg.l :
                    NoId(res.arg.l[i]) \/ OfAnotherDomain(res.arg.l[i], DeclaredDomain)) =>
               IsValueValidationError(res.out)

\* C6 amended: with a non-empty domain = D every accepted value, and every
\* element of an accepted list, is an entity id of domain D or a registry id
\* (32 hex characters), which is accepted without a domain check; an entity id
\* of another domain is refused with ValueValidationError; with multiple a
\* non-list is refused and one bad element (no id, or an entity id of another
\* domain) refuses the whole list.
C6_DomainOrRegistryId ==
    (CalledOn("entity") /\ Has(inst, "domain") /\ DeclaredDomain # <<>>) =>
        /\ res.out.ok => \A v \in Accepted(res.out) :
                             BelongsTo(v, DeclaredDomain) \/ IsRegistryId(v)
        /\ (~Multiple /\ OfAnotherDomain(res.arg, DeclaredDomain)) =>
               IsValueValidationError(res.out)
        /\ (Multiple /\ ~IsList(res.arg)) => IsValueValidationError(res.out)
        /\ (Multiple /\ IsList(res.arg)
              /\ \E i \in DOMAIN res.arg.l :
                    NoId(res.arg.l[i]) \/ OfAnotherDomain(res.arg.l[i], DeclaredDomain)) =>
               IsValueValidationError(res.out)

\* A list holding a registry id and an entity id of the declared domain was
\* accepted by a selector declared with that domain and multiple
C6_Witness ==
    /\ CalledOn("entity")
    /\ Has(inst, "domain")
    /\ DeclaredDomain = sLt.s
    /\ Multiple
    /\ res.arg = PyList(<<sUuid, sLtK>>)
    /\ res.out.ok
    /\ res.out.v = res.arg

\* ------------------------------------------------------------------------
\* C7
\* ------------------------------------------------------------------------
\* C7: a number selector declared with min and max accepts a value if and only
\* if it coerces to a float v with min <= v <= max, both bounds included, and
\* returns v; a value below min or above max is refused with
\* ValueValidationError.
C7_InclusiveRange ==
    (CalledOn("number") /\ Has(inst, "min") /\ Has(inst, "max")) =>
        LET value == CoerceFloat(res.arg)
            lo == Opt(inst, "min").f
            hi == Opt(inst, "max").f
        IN /\ res.out.ok <=> (value.ok /\ lo <= value.v.f /\ value.v.f <= hi)
           /\ res.out.ok => res.out.v = value.v
           /\ (value.ok /\ (value.v.f < lo \/ value.v.f > hi)) =>
                  IsValueValidationError(res.out)
           /\ ~res.out.ok => IsValueValidationError(res.out)

\* The value equal to max was accepted and returned as a float
C7_Witness ==
    /\ CalledOn("number")
    /\ Has(inst, "min")
    /\ Has(inst, "max")
    /\ res.arg = PyInt(MaxNumber - 1)
    /\ res.out.ok
    /\ res.out.v = Opt(inst, "max")

\* ------------------------------------------------------------------------
\* C8
\* ------------------------------------------------------------------------
\* The option set as the declaration gives it: the strings themselves, or the
\* value of each {value, label} entry
DeclaredOptionSet(d) ==
    LET options == OptionsOf(d).d["options"].l
    IN {IF IsStr(options[i]) THEN options[i] ELSE options[i].d["value"] : i \in DOMAIN options}

\* C8: a select selector accepts a value if and only if the value coerced to
\* string is a member of the option set, by the same rule for a list of strings
\* and a list of {value, label} mappings; it returns the string, and refuses a
\* non-member with ValueValidationError.
C8_SelectMembership ==
    CalledOn("select") =>
        LET text == cv_string(res.arg)
        IN /\ res.out.ok <=> (text.ok /\ text.v \in DeclaredOptionSet(decl))
           /\ res.out.ok => res.out = text
           /\ ~res.out.ok => IsValueValidationError(res.out)

\* The integer 5 was accepted against {value, label} options as the string "5"
C8_Witness ==
    /\ CalledOn("select")
    /\ ~IsStr(Opt(inst, "options").l[1])
    /\ res.arg = PyInt(5)
    /\ res.out.ok
    /\ res.out.v = sFive

\* ------------------------------------------------------------------------
\* C9
\* ------------------------------------------------------------------------
\* C9: once constructed, the instance never changes: whatever values the
\* callers sharing it validate, accepted or refused, its tag, its options and
\* what serialize returns stay what selector(decl) produced, and the outcome of
\* validating a value is the outcome a freshly constructed instance gives.
C9_InstanceNeverChanges ==
    /\ [](HasInstance =>
            /\ inst = selector(decl).v
            /\ serialize(inst) = serialize(selector(decl).v)
            /\ Called => res.out = Selector_call(selector(decl).v, res.arg))
    /\ [][HasInstance => inst' = inst /\ serialize(inst') = serialize(inst)]_vars

\* The second caller had a value refused by a select selector declared with
\* {value, label} options, after which the options are still the declared ones
C9_Witness ==
    /\ CalledOn("select")
    /\ res.caller = NumCallers
    /\ IsValueValidationError(res.out)
    /\ ~IsStr(Opt(inst, "options").l[1])
    /\ inst.config = OptionsOf(decl)

\* ------------------------------------------------------------------------
\* C10
\* ------------------------------------------------------------------------
OnlyOption(d, option) == IsMapping(OptionsOf(d)) /\ DOMAIN OptionsOf(d).d = {option}

Without(m, option) == PyDict([key \in DOMAIN m.d \ {option} |-> m.d[key]])

\* The outer declaration is accepted when the inner kind accepts the embedded
\* options as its own declaration, and normalizes them the same way
EmbedsAs(option, innerTag) ==
    LET inner == selector(Declaration(innerTag, OptionsOf(decl).d[option]))
    IN /\ res.out.ok <=> inner.ok
       /\ res.out.ok => inst.config.d[option] = inner.v.config

\* C10 as stated: the entity option of a device, area or target declaration
\* accepts exactly the option mappings an entity declaration accepts, and the
\* device option of an area or target declaration exactly those a device
\* declaration accepts, normalized the same way.
C10_EmbeddingAsStated ==
    (Constructed /\ Registered(decl)) =>
        /\ (TagOf(decl) \in {"device", "area", "target"} /\ OnlyOption(decl, "entity")) =>
               EmbedsAs("entity", "entity")
        /\ (TagOf(decl) \in {"area", "target"} /\ OnlyOption(decl, "device")) =>
               EmbedsAs("device", "device")

\* C10 amended: the entity option of a device, area or target declaration
\* accepts exactly the option mappings an entity declaration accepts that do
\* not set `multiple`, and normalizes them as the entity declaration does
\* except that no `multiple` default is filled in; the device option of an area
\* or target declaration accepts exactly the option mappings a device
\* declaration accepts and normalizes them the same way.
C10_EmbedsSingleEntity ==
    (Constructed /\ Registered(decl)) =>
        /\ (TagOf(decl) \in {"device", "area", "target"} /\ OnlyOption(decl, "entity")) =>
               LET m == OptionsOf(decl).d["entity"]
                   inner == selector(Declaration("entity", m))
               IN /\ res.out.ok <=> (inner.ok /\ "multiple" \notin DOMAIN m.d)
                  /\ res.out.ok => inst.config.d["entity"] = Without(inner.v.config, "multiple")
        /\ (TagOf(decl) \in {"area", "target"} /\ OnlyOption(decl, "device")) =>
               EmbedsAs("device", "device")

\* An area was constructed from a device option that itself embeds an entity
\* option; the device options came out with the device default filled in
C10_Witness ==
    /\ Constructed
    /\ Registered(decl)
    /\ TagOf(decl) = "area"
    /\ OnlyOption(decl, "device")
    /\ OptionsOf(decl).d["device"] = PyDict([entity |-> PyDict([domain |-> sLt])])
    /\ res.out.ok
    /\ inst.config.d["device"] =
           PyDict([entity |-> PyDict([domain |-> sLt]), multiple |-> PyBool(FALSE)])

====
